---- MODULE Spec2Model ----
(***************************************************************************)
(* Model of drivers/block/brk.c, a RAM backed block device: a radix tree   *)
(* of pages (brk_pages), the byte copy routines, the discard routine, the  *)
(* request entry points and the BLKFLSBUF ioctl.                           *)
(*                                                                         *)
(* The page geometry is scaled down so that page contents can be           *)
(* enumerated byte by byte: a sector is 2^SECTOR_SHIFT bytes and a page is *)
(* 2^PAGE_SHIFT bytes (the driver is built with 9 and 12).  Every          *)
(* operator computes with the shifts exactly as the code does, so the      *)
(* geometry is a parameter of the model and not of the translation.        *)
(*                                                                         *)
(* The SHA1 digest that copy_to_brk computes over the local buffer dayjob  *)
(* reads and writes neither src nor dst, and is left out.                  *)
(***************************************************************************)
EXTENDS Integers, Sequences, FiniteSets, TLC

VARIABLES
    brk_pages,   \* brk->brk_pages: the radix tree, page index -> page
    mem,         \* the allocated struct pages: page -> [index, data]
    bug,         \* TRUE once a BUG_ON of the driver has fired
    last,        \* the last completed entry point call: inputs and outcome
    nops,        \* number of entry point calls made so far
    written,     \* the sectors some write has copied data to
    brk_lock,    \* brk->brk_lock: the thread holding it, or NoThread
    brk_mutex,   \* brk_mutex and bd_mutex: the thread inside brk_ioctl
    thr,         \* per thread: the call it is in and its locals
    req,         \* the bio inside brk_make_request and the locals of that call
    geo          \* a sector range and its translation to pages and offsets

vars == <<brk_pages, mem, bug, last, nops, written, brk_lock, brk_mutex, thr,
          req, geo>>

----------------------------------------------------------------------------
(* Geometry and bounds *)

SECTOR_SHIFT == 1
PAGE_SHIFT == 2
rd_size == 2
FREE_BATCH == 2
MaxOps == 3
MaxSegs == 2
MaxOpeners == 2
NThreads == 2
MaxFailAt == 2
MaxReqs == 2

Pow2(k) == 2 ^ k
SECTOR_SIZE == Pow2(SECTOR_SHIFT)
PAGE_SIZE == Pow2(PAGE_SHIFT)
PAGE_CACHE_SIZE == PAGE_SIZE
PAGE_SECTORS_SHIFT == PAGE_SHIFT - SECTOR_SHIFT
PAGE_SECTORS == Pow2(PAGE_SECTORS_SHIFT)

\* set_capacity(disk, rd_size * 2): the capacity in sectors
get_capacity == rd_size * 2

\* errno values, returned negated as in the code
EIO == 5
EBUSY == 16
ENOTTY == 25
ENOSPC == 28

READ == "READ"
WRITE == "WRITE"
REQ_DISCARD == "DISCARD"
BLKFLSBUF == "BLKFLSBUF"
OTHERCMD == "OTHERCMD"

NULL == 0
NoIndex == -1
NoThread == 0
Threads == 1..NThreads

\* The struct pages the allocator can hand out: enough for every page of the
\* device, one beyond its end, and one in flight per thread.
NPages == (get_capacity \div PAGE_SECTORS) + 2 + NThreads
PageIds == 1..NPages

ZeroData == [i \in 0..(PAGE_SIZE - 1) |-> 0]

Min(a, b) == IF a < b THEN a ELSE b

\* x >> k and x << k on non-negative integers
Shr(x, k) == x \div Pow2(k)
Shl(x, k) == x * Pow2(k)

----------------------------------------------------------------------------
(* The page store, as sequential operators on a record                     *)
(*   s = [tree, mem, bug, att, fate]                                       *)
(* tree, mem, bug are the values of brk_pages, mem, bug; att counts the    *)
(* page allocations attempted during the call; fate tells which attempt,   *)
(* if any, fails and how: [at |-> k, kind |-> "nopage" | "nonode"],        *)
(* at = 0 for a call during which memory never runs out.                   *)

NoFate == [at |-> 0, kind |-> "nopage"]

\* sector >> PAGE_SECTORS_SHIFT
PageIndex(sector) == Shr(sector, PAGE_SECTORS_SHIFT)

\* (sector & (PAGE_SECTORS-1)) << SECTOR_SHIFT
PageOffset(sector) == Shl(sector % PAGE_SECTORS, SECTOR_SHIFT)

\* copy = min_t(size_t, n, PAGE_SIZE - offset)
CopyLen(sector, n) == Min(n, PAGE_SIZE - PageOffset(sector))

radix_tree_lookup(tree, idx) == IF idx \in DOMAIN tree THEN tree[idx] ELSE NULL

\* BUG_ON(page && page->index != idx); return page
LookupChecked(s, idx, page) ==
    [s |-> [s EXCEPT !.bug = @ \/ (page # NULL /\ s.mem[page].index # idx)],
     page |-> page]

brk_lookup_page(s, sector) ==
    LookupChecked(s, PageIndex(sector),
                  radix_tree_lookup(s.tree, PageIndex(sector)))

Lowest(set) == CHOOSE q \in set : \A r \in set : q <= r

\* the element of a set of one element.  Only({F(x) : x \in {e}}) is F(e),
\* with the result e of a call worked out once and then used as a value.
Only(set) == CHOOSE x \in set : TRUE

\* a struct page taken from the allocator, zero filled (__GFP_ZERO); its
\* index field is not yet set
NewPage(m, p) ==
    [q \in DOMAIN m \cup {p} |->
        IF q = p THEN [index |-> NoIndex, data |-> ZeroData] ELSE m[q]]

\* The lowest free struct page; NULL when this attempt is the one that finds
\* no memory.
alloc_page(s) ==
    IF (s.fate.at = s.att + 1 /\ s.fate.kind = "nopage") \/ PageIds \subseteq DOMAIN s.mem
    THEN [s |-> [s EXCEPT !.att = @ + 1], page |-> NULL]
    ELSE [s |-> [s EXCEPT !.att = @ + 1,
                          !.mem = NewPage(@, Lowest(PageIds \ DOMAIN s.mem))],
          page |-> Lowest(PageIds \ DOMAIN s.mem)]

\* radix_tree_preload: non-zero (failure) when no tree node can be reserved
radix_tree_preload(s) == s.fate.at = s.att /\ s.fate.kind = "nonode"

free_page(m, page) == [q \in DOMAIN m \ {page} |-> m[q]]

radix_tree_insert(tree, idx, page) ==
    [i \in DOMAIN tree \cup {idx} |-> IF i = idx THEN page ELSE tree[i]]

radix_tree_delete(tree, idx) == [i \in DOMAIN tree \ {idx} |-> tree[i]]

\* radix_tree_insert failed with -EEXIST and our page is freed: page is the
\* one looked up instead; BUG_ON(!page); BUG_ON(page->index != idx)
InsertLost(s, idx, page) ==
    [s |-> [s EXCEPT !.bug = @ \/ page = NULL \/ s.mem[page].index # idx],
     page |-> page]

\* lines 127-136: under brk_lock, with a page allocated
InsertLocked(s, idx, page) ==
    IF idx \in DOMAIN s.tree
    THEN InsertLost([s EXCEPT !.mem = free_page(@, page)], idx,
                    radix_tree_lookup(s.tree, idx))
    ELSE [s |-> [s EXCEPT !.mem[page].index = idx,
                          !.tree = radix_tree_insert(@, idx, page)],
          page |-> page]

\* lines 119-125: a is what alloc_page gave
InsertAllocated(a, idx) ==
    IF a.page = NULL THEN a
    ELSE IF radix_tree_preload(a.s)
    THEN [s |-> [a.s EXCEPT !.mem = free_page(@, a.page)], page |-> NULL]
    ELSE InsertLocked(a.s, idx, a.page)

\* lines 102-118: found is what brk_lookup_page gave
InsertLooked(found, idx) ==
    IF found.page # NULL THEN found
    ELSE InsertAllocated(alloc_page(found.s), idx)

brk_insert_page(s, sector) ==
    InsertLooked(brk_lookup_page(s, sector), PageIndex(sector))

\* lines 150-153: page is what radix_tree_delete gave
FreeDeleted(s, idx, page) ==
    IF page = NULL THEN s
    ELSE [s EXCEPT !.tree = radix_tree_delete(@, idx),
                   !.mem = free_page(@, page)]

brk_free_page(s, sector) ==
    FreeDeleted(s, PageIndex(sector),
                radix_tree_lookup(s.tree, PageIndex(sector)))

\* if (page) clear_highpage(page)
ZeroLooked(l) ==
    IF l.page # NULL
    THEN [l.s EXCEPT !.mem[l.page].data = ZeroData]
    ELSE l.s

brk_zero_page(s, sector) == ZeroLooked(brk_lookup_page(s, sector))

\* radix_tree_gang_lookup: up to max pages with index >= pos, by rising index
RECURSIVE radix_tree_gang_lookup(_, _, _)
radix_tree_gang_lookup(tree, pos, max) ==
    IF max = 0 \/ {i \in DOMAIN tree : i >= pos} = {} THEN <<>>
    ELSE <<tree[Lowest({i \in DOMAIN tree : i >= pos})]>>
         \o radix_tree_gang_lookup(
                tree, Lowest({i \in DOMAIN tree : i >= pos}) + 1, max - 1)

\* one round of the for loop of brk_free_pages: npos is pages[i]->index,
\* ret what radix_tree_delete gives
FreeOne(s, page, pos, npos, ret) ==
    [s EXCEPT !.bug = @ \/ npos < pos \/ ret = NULL \/ ret # page,
              !.tree = radix_tree_delete(@, npos),
              !.mem = free_page(@, page)]

\* the for loop of brk_free_pages over one batch; yields the store and pos
RECURSIVE FreeBatch(_, _, _)
FreeBatch(s, pages, pos) ==
    IF pages = <<>> THEN [s |-> s, pos |-> pos]
    ELSE FreeBatch(FreeOne(s, Head(pages), pos, s.mem[Head(pages)].index,
                           radix_tree_lookup(s.tree, s.mem[Head(pages)].index)),
                   Tail(pages), s.mem[Head(pages)].index)

\* FreeLoop with the loop left after its first batch
FreeLoop_onebatch(s, pos) ==
    FreeBatch(s, radix_tree_gang_lookup(s.tree, pos, FREE_BATCH), pos).s

\* the do ... while (nr_pages == FREE_BATCH) loop, entered with pos; b is
\* the outcome of the for loop over the nr pages found
RECURSIVE FreeLoop(_, _)
FreeWhile(b, nr) == IF nr = FREE_BATCH THEN FreeLoop(b.s, b.pos + 1) ELSE b.s

FreeLoop(s, pos) ==
    FreeWhile(FreeBatch(s, radix_tree_gang_lookup(s.tree, pos, FREE_BATCH), pos),
              Len(radix_tree_gang_lookup(s.tree, pos, FREE_BATCH)))

brk_free_pages(s) == FreeLoop(s, 0)

----------------------------------------------------------------------------
(* Byte copies.  A memory region is a function on 0..k-1; a pointer is a    *)
(* region and a position in it.                                             *)

memcpy(dst, dpos, src, spos, cnt) ==
    [i \in DOMAIN dst |->
        IF dpos <= i /\ i < dpos + cnt THEN src[spos + (i - dpos)] ELSE dst[i]]

memset(dst, dpos, c, cnt) ==
    [i \in DOMAIN dst |-> IF dpos <= i /\ i < dpos + cnt THEN c ELSE dst[i]]

\* if (!brk_insert_page(brk, sector)) return -ENOSPC; return 0
SetupSecond(i2) ==
    IF i2.page = NULL THEN [s |-> i2.s, err |-> -ENOSPC]
    ELSE [s |-> i2.s, err |-> 0]

\* SetupFirst giving back the first page when the second cannot be had
SetupSecond_rollback(i2, sector) ==
    IF i2.page = NULL THEN [s |-> brk_free_page(i2.s, sector), err |-> -ENOSPC]
    ELSE [s |-> i2.s, err |-> 0]

SetupFirst_rollback(i1, sector, n, copy) ==
    IF i1.page = NULL THEN [s |-> i1.s, err |-> -ENOSPC]
    ELSE IF copy < n
    THEN Only({SetupSecond_rollback(i2, sector) :
                  i2 \in {brk_insert_page(i1.s,
                                          sector + Shr(copy, SECTOR_SHIFT))}})
    ELSE [s |-> i1.s, err |-> 0]

\* lines 211-218: i1 is what the first brk_insert_page gave
SetupFirst(i1, sector, n, copy) ==
    IF i1.page = NULL THEN [s |-> i1.s, err |-> -ENOSPC]
    ELSE IF copy < n
    THEN Only({SetupSecond(i2) :
                  i2 \in {brk_insert_page(i1.s,
                                          sector + Shr(copy, SECTOR_SHIFT))}})
    ELSE [s |-> i1.s, err |-> 0]

copy_to_brk_setup(s, sector, n) ==
    Only({SetupFirst(i1, sector, n, CopyLen(sector, n)) :
             i1 \in {brk_insert_page(s, sector)}})

\* discard_from_brk taking the branch that frees the pages
RECURSIVE discard_from_brk_free(_, _, _)
discard_from_brk_free(s, sector, n) ==
    IF n >= PAGE_SIZE
    THEN discard_from_brk_free(brk_free_page(s, sector),
                               sector + Shr(PAGE_SIZE, SECTOR_SHIFT),
                               n - PAGE_SIZE)
    ELSE s

RECURSIVE discard_from_brk(_, _, _)
discard_from_brk(s, sector, n) ==
    IF n >= PAGE_SIZE
    THEN discard_from_brk(brk_zero_page(s, sector),
                          sector + Shr(PAGE_SIZE, SECTOR_SHIFT), n - PAGE_SIZE)
    ELSE s

\* CopyInto clearing the page before the memcpy
CopyInto_cleared(l, offset, src, spos, copy) ==
    IF l.page = NULL THEN [l.s EXCEPT !.bug = TRUE]
    ELSE [l.s EXCEPT !.mem[l.page].data =
                         memcpy(ZeroData, offset, src, spos, copy)]

\* BUG_ON(!page); dst = kmap_atomic(page); memcpy(dst + offset, src, copy)
CopyInto(l, offset, src, spos, copy) ==
    IF l.page = NULL THEN [l.s EXCEPT !.bug = TRUE]
    ELSE [l.s EXCEPT !.mem[l.page].data = memcpy(@, offset, src, spos, copy)]

\* CopyRest without src += copy before the second page
CopyRest_samesrc(s1, src, spos, sector, n, copy) ==
    IF s1.bug THEN s1
    ELSE IF copy < n
    THEN CopyInto(brk_lookup_page(s1, sector + Shr(copy, SECTOR_SHIFT)),
                  0, src, spos, n - copy)
    ELSE s1

\* lines 290-300: s1 is the store after the first memcpy
CopyRest(s1, src, spos, sector, n, copy) ==
    IF s1.bug THEN s1
    ELSE IF copy < n
    THEN CopyInto(brk_lookup_page(s1, sector + Shr(copy, SECTOR_SHIFT)),
                  0, src, spos + copy, n - copy)
    ELSE s1

\* copies n bytes from src + spos into the store at sector
copy_to_brk(s, src, spos, sector, n) ==
    Only({CopyRest(s1, src, spos, sector, n, CopyLen(sector, n)) :
             s1 \in {CopyInto(brk_lookup_page(s, sector), PageOffset(sector),
                              src, spos, CopyLen(sector, n))}})

\* CopyOut leaving dst alone where the page is absent
CopyOut_nomemset(dst, dpos, s, page, offset, copy) ==
    IF page # NULL THEN memcpy(dst, dpos, s.mem[page].data, offset, copy)
    ELSE dst

\* if (page) memcpy(dst, src + offset, copy); else memset(dst, 0, copy)
CopyOut(dst, dpos, s, page, offset, copy) ==
    IF page # NULL THEN memcpy(dst, dpos, s.mem[page].data, offset, copy)
    ELSE memset(dst, dpos, 0, copy)

\* lines 326-337: d1 is the region dst after the first copy
CopyOutRest(d1, dpos, s, sector, n, copy) ==
    IF copy < n
    THEN CopyOut(d1, dpos + copy, s,
                 brk_lookup_page(s, sector + Shr(copy, SECTOR_SHIFT)).page,
                 0, n - copy)
    ELSE d1

\* copies n bytes of the store at sector to dst + dpos; yields the region dst
copy_from_brk(dst, dpos, s, sector, n) ==
    CopyOutRest(CopyOut(dst, dpos, s, brk_lookup_page(s, sector).page,
                        PageOffset(sector), CopyLen(sector, n)),
                dpos, s, sector, n, CopyLen(sector, n))

\* lines 352-364 of a write: su is what copy_to_brk_setup gave
WriteBvec(su, page, len, off, sector) ==
    IF su.err # 0 THEN [s |-> su.s, err |-> su.err, page |-> page]
    ELSE [s |-> copy_to_brk(su.s, page, off, sector, len), err |-> 0,
          page |-> page]

\* one bvec: page is the segment's buffer page, the data is at page + off
brk_do_bvec(s, page, len, off, rw, sector) ==
    IF rw # READ
    THEN Only({WriteBvec(su, page, len, off, sector) :
                  su \in {copy_to_brk_setup(s, sector, len)}})
    ELSE [s |-> s, err |-> 0,
          page |-> copy_from_brk(page, off, s, sector, len)]

----------------------------------------------------------------------------
(* Entry points.  A bio is [rw, bi_sector, bi_size, bi_io_vec]; bi_io_vec   *)
(* is the sequence of its segments [bv_page, bv_len, bv_offset].           *)

bio_end_sector(bio) == bio.bi_sector + Shr(bio.bi_size, SECTOR_SHIFT)

\* bio_for_each_segment from segment k on; yields store, err, the buffers
\* and the number of segments it went through without error; r is what
\* brk_do_bvec gave for segment k
RECURSIVE SegmentLoop(_, _, _, _, _)
SegmentDone(r, vecs, k, rw, sector) ==
    IF r.err # 0
    THEN [s |-> r.s, err |-> r.err,
          vecs |-> [vecs EXCEPT ![k].bv_page = r.page], done |-> k - 1]
    ELSE SegmentLoop(r.s, [vecs EXCEPT ![k].bv_page = r.page], k + 1, rw,
                     sector + Shr(vecs[k].bv_len, SECTOR_SHIFT))

SegmentLoop(s, vecs, k, rw, sector) ==
    IF k > Len(vecs) THEN [s |-> s, err |-> 0, vecs |-> vecs, done |-> k - 1]
    ELSE SegmentDone(brk_do_bvec(s, vecs[k].bv_page, vecs[k].bv_len,
                                 vecs[k].bv_offset, rw, sector),
                     vecs, k, rw, sector)

\* brk_make_request checking the start sector instead of the end sector
brk_make_request_start(s, bio) ==
    IF bio.bi_sector > get_capacity
    THEN [s |-> s, err |-> -EIO, vecs |-> bio.bi_io_vec, done |-> 0]
    ELSE IF bio.rw = REQ_DISCARD
    THEN [s |-> discard_from_brk(s, bio.bi_sector, bio.bi_size), err |-> 0,
          vecs |-> bio.bi_io_vec, done |-> 0]
    ELSE SegmentLoop(s, bio.bi_io_vec, 1, bio.rw, bio.bi_sector)

\* yields the store and the arguments of bio_endio: the bio and err
brk_make_request(s, bio) ==
    IF bio_end_sector(bio) > get_capacity
    THEN [s |-> s, err |-> -EIO, vecs |-> bio.bi_io_vec, done |-> 0]
    ELSE IF bio.rw = REQ_DISCARD
    THEN [s |-> discard_from_brk(s, bio.bi_sector, bio.bi_size), err |-> 0,
          vecs |-> bio.bi_io_vec, done |-> 0]
    ELSE SegmentLoop(s, bio.bi_io_vec, 1, bio.rw, bio.bi_sector)

\* yields the store, err and the caller's page
brk_rw_page(s, sector, page, rw) ==
    brk_do_bvec(s, page, PAGE_CACHE_SIZE, 0, rw, sector)

\* brk_ioctl without the test of bd_openers
brk_ioctl_anyopeners(s, cmd, bd_openers) ==
    IF cmd # BLKFLSBUF THEN [s |-> s, error |-> -ENOTTY]
    ELSE [s |-> brk_free_pages(s), error |-> 0]

\* yields the store and the return value
brk_ioctl(s, cmd, bd_openers) ==
    IF cmd # BLKFLSBUF THEN [s |-> s, error |-> -ENOTTY]
    ELSE IF bd_openers <= 1 THEN [s |-> brk_free_pages(s), error |-> 0]
    ELSE [s |-> s, error |-> -EBUSY]

----------------------------------------------------------------------------
(* Inputs *)

\* a byte no write ever stores: what a read buffer holds before the read
Poison == PAGE_SIZE + 1

PoisonPage == [j \in 0..(PAGE_SIZE - 1) |-> Poison]

\* the buffer page to write from: non-zero bytes, no two alike
Pattern == [j \in 0..(PAGE_SIZE - 1) |-> j + 1]

\* Segments of every length up to a page, the data lying at the start or at
\* the end of the buffer page.
BvecsOf(rw, len) ==
    {[bv_page |-> IF rw = READ THEN PoisonPage ELSE Pattern,
      bv_len |-> len, bv_offset |-> off] : off \in {0, PAGE_SIZE - len}}

Bvecs(rw) == UNION {BvecsOf(rw, len) : len \in 1..PAGE_SIZE}

\* The block layer cuts a bio into segments of whole sectors; only the last
\* segment is given every byte length here.  In a bio of several segments
\* the data lies at the start of each buffer page.
InnerBvecs(rw) ==
    {b \in Bvecs(rw) : b.bv_len % SECTOR_SIZE = 0 /\ b.bv_offset = 0}

LastBvecs(rw) == {b \in Bvecs(rw) : b.bv_offset = 0}

RECURSIVE IoVecs(_, _)
IoVecs(rw, n) ==
    IF n = 1 THEN {<<b>> : b \in LastBvecs(rw)}
    ELSE {<<a>> \o w : a \in InnerBvecs(rw), w \in IoVecs(rw, n - 1)}

RECURSIVE SumLen(_)
SumLen(vecs) == IF vecs = <<>> THEN 0 ELSE Head(vecs).bv_len + SumLen(Tail(vecs))

BiosOf(rw) ==
    {[rw |-> rw, bi_sector |-> sector, bi_size |-> SumLen(w), bi_io_vec |-> w] :
        sector \in 0..(get_capacity - 1),
        w \in {<<b>> : b \in Bvecs(rw)}
              \cup UNION {IoVecs(rw, n) : n \in 2..MaxSegs}}

RwBios == BiosOf(READ) \cup BiosOf(WRITE)

\* discards of whole sectors, from nothing up to one sector beyond the device
DiscardBios ==
    {[rw |-> REQ_DISCARD, bi_sector |-> sector,
      bi_size |-> Shl(k, SECTOR_SHIFT), bi_io_vec |-> <<>>] :
        sector \in 0..(get_capacity - 1), k \in 0..(get_capacity + 1)}

Bios == RwBios \cup DiscardBios

Fates ==
    {NoFate} \cup {[at |-> k, kind |-> kd] :
                      k \in 1..MaxFailAt, kd \in {"nopage", "nonode"}}

NoBio == [rw |-> "none", bi_sector |-> 0, bi_size |-> 0, bi_io_vec |-> <<>>]

\* had: the page indices in the store when the call came
NoCall == [op |-> "none", bio |-> NoBio, err |-> 0, vecs |-> <<>>, done |-> 0,
           cmd |-> "none", bd_openers |-> 0, had |-> {}]

\* no bio is inside brk_make_request.  Inside: pc is the place in the
\* function, sector, err and vecs its locals, k the segment the loop is at,
\* att and fate the allocation attempts made and the one that fails, endio
\* the number of times bio_endio has been called for the bio
NoReq == [pc |-> "none", bio |-> NoBio, sector |-> 0, k |-> 0, err |-> 0,
          vecs |-> <<>>, att |-> 0, fate |-> NoFate, endio |-> 0]

\* no range is being translated.  Otherwise: ss and ps are the sector and
\* page shifts the driver is built with, sector and n the range, offset and
\* copy the locals of copy_to_brk_setup and copy_to_brk, ensured the page
\* indices brk_insert_page is called for, lens the bytes each memcpy moves
NoGeo == [pc |-> "none", ss |-> 0, ps |-> 0, sector |-> 0, n |-> 0,
          offset |-> 0, copy |-> 0, ensured |-> <<>>, lens |-> <<>>]

\* the sector at which segment k of a bio starts
RECURSIVE SegSector(_, _)
SegSector(bio, k) ==
    IF k = 1 THEN bio.bi_sector
    ELSE SegSector(bio, k - 1) + Shr(bio.bi_io_vec[k - 1].bv_len, SECTOR_SHIFT)

\* the sectors that hold the n > 0 bytes from the start of sector on
SectorsOf(sector, n) == sector..(sector + Shr(n - 1, SECTOR_SHIFT))

\* the sectors a write has copied data to when done segments went through
WrittenBy(bio, done) ==
    IF bio.rw = WRITE
    THEN UNION {SectorsOf(SegSector(bio, k), bio.bi_io_vec[k].bv_len) :
                   k \in 1..done}
    ELSE {}

----------------------------------------------------------------------------
(* The device driven by one submitter at a time *)

Cur(fate) == [tree |-> brk_pages, mem |-> mem, bug |-> bug, att |-> 0,
              fate |-> fate]

Store(s) ==
    /\ brk_pages' = s.tree
    /\ mem' = s.mem
    /\ bug' = s.bug

\* A thread outside the driver.  Inside it: op is the entry point, sector and
\* n its range, which the page of the range it is at (1 or 2), cur the sector
\* of that page, page the local variable page, got the pages brk_insert_page
\* has returned to it, left the bytes a discard has still to go over, pos,
\* batch and i the locals pos, pages and i of brk_free_pages, err the outcome;
\* raced tells that radix_tree_insert found the index taken.  In brk_ioctl n
\* is bd_openers.  buf is the buffer a read copies to.
Idle == [pc |-> "idle", op |-> "none", sector |-> 0, n |-> 0, which |-> 1,
         cur |-> 0, page |-> NULL, got |-> <<>>, left |-> 0, pos |-> 0,
         batch |-> <<>>, i |-> 0, err |-> 0, raced |-> FALSE, buf |-> <<>>]

Init ==
    /\ brk_pages = <<>>
    /\ mem = <<>>
    /\ bug = FALSE
    /\ last = NoCall
    /\ nops = 0
    /\ written = {}
    /\ brk_lock = NoThread
    /\ brk_mutex = NoThread
    /\ thr = [t \in Threads |-> Idle]
    /\ req = NoReq
    /\ geo = NoGeo

MakeRequest ==
    /\ last.op = "none"
    /\ nops < MaxOps
    /\ \E bio \in Bios, fate \in Fates :
          /\ bio.rw # WRITE => fate = NoFate
          /\ LET r == brk_make_request(Cur(fate), bio)
             IN  /\ Store(r.s)
                 /\ last' = [NoCall EXCEPT !.op = "make_request", !.bio = bio,
                                           !.err = r.err, !.vecs = r.vecs,
                                           !.done = r.done,
                                           !.had = DOMAIN brk_pages]
                 /\ written' = written \cup WrittenBy(bio, r.done)
    /\ nops' = nops + 1
    /\ UNCHANGED <<brk_lock, brk_mutex, thr, req, geo>>

RwPage ==
    /\ last.op = "none"
    /\ nops < MaxOps
    /\ \E rw \in {READ, WRITE}, sector \in 0..(get_capacity - 1),
          fate \in Fates :
          /\ rw = READ => fate = NoFate
          /\ LET page == IF rw = READ THEN PoisonPage ELSE Pattern
                 r == brk_rw_page(Cur(fate), sector, page, rw)
                 bio == [rw |-> rw, bi_sector |-> sector,
                         bi_size |-> PAGE_CACHE_SIZE,
                         bi_io_vec |-> <<[bv_page |-> page,
                                          bv_len |-> PAGE_CACHE_SIZE,
                                          bv_offset |-> 0]>>]
                 done == IF r.err = 0 THEN 1 ELSE 0
             IN  /\ Store(r.s)
                 /\ written' = written \cup WrittenBy(bio, done)
                 /\ last' = [NoCall EXCEPT
                               !.op = "rw_page",
                               !.bio = bio,
                               !.err = r.err,
                               !.done = done,
                               !.had = DOMAIN brk_pages,
                               !.vecs = <<[bv_page |-> r.page,
                                           bv_len |-> PAGE_CACHE_SIZE,
                                           bv_offset |-> 0]>>]
    /\ nops' = nops + 1
    /\ UNCHANGED <<brk_lock, brk_mutex, thr, req, geo>>

Ioctl ==
    /\ last.op = "none"
    /\ nops < MaxOps
    /\ \E cmd \in {BLKFLSBUF, OTHERCMD}, bd_openers \in 0..MaxOpeners :
          LET r == brk_ioctl(Cur(NoFate), cmd, bd_openers)
          IN  /\ Store(r.s)
              /\ last' = [NoCall EXCEPT !.op = "ioctl", !.cmd = cmd,
                                        !.bd_openers = bd_openers,
                                        !.err = r.error,
                                        !.had = DOMAIN brk_pages]
    /\ nops' = nops + 1
    /\ UNCHANGED <<written, brk_lock, brk_mutex, thr, req, geo>>

\* bio_endio, page_endio, the return of the ioctl: the submitter takes the
\* outcome of the call, and the next call can come
Complete ==
    /\ last.op # "none"
    /\ last' = NoCall
    /\ UNCHANGED <<brk_pages, mem, bug, nops, written, brk_lock, brk_mutex, thr, req, geo>>

Next == MakeRequest \/ RwPage \/ Ioctl \/ Complete

Spec == Init /\ [][Next]_vars

----------------------------------------------------------------------------
(* brk_make_request statement by statement, for one bio at a time *)

ReqStore == [tree |-> brk_pages, mem |-> mem, bug |-> bug, att |-> req.att,
             fate |-> req.fate]

ReqIdle == <<last, written, brk_lock, brk_mutex, thr, geo>>

\* the block layer hands a bio to brk_make_request: int err = -EIO;
\* sector = bio->bi_iter.bi_sector
ReqSubmit ==
    /\ req.pc = "none"
    /\ nops < MaxReqs
    /\ \E bio \in Bios, fate \in Fates :
          /\ bio.rw # WRITE => fate = NoFate
          /\ req' = [NoReq EXCEPT !.pc = "entry", !.bio = bio,
                                  !.sector = bio.bi_sector, !.k = 1,
                                  !.err = -EIO, !.vecs = bio.bi_io_vec,
                                  !.fate = fate]
    /\ nops' = nops + 1
    /\ UNCHANGED <<brk_pages, mem, bug, ReqIdle>>

\* if (bio_end_sector(bio) > get_capacity(...)) goto out;
\* if (bio->bi_rw & REQ_DISCARD) { err = 0; discard_from_brk(...); goto out; }
ReqCheck ==
    /\ req.pc = "entry"
    /\ IF bio_end_sector(req.bio) > get_capacity
       THEN /\ req' = [req EXCEPT !.pc = "out"]
            /\ UNCHANGED <<brk_pages, mem, bug>>
       ELSE IF req.bio.rw = REQ_DISCARD
       THEN /\ req' = [req EXCEPT !.pc = "out", !.err = 0]
            /\ Store(discard_from_brk(ReqStore, req.sector, req.bio.bi_size))
       ELSE /\ req' = [req EXCEPT !.pc = "segment"]
            /\ UNCHANGED <<brk_pages, mem, bug>>
    /\ UNCHANGED <<nops, ReqIdle>>

\* what ReqSegmentDone does, leaving the function when a segment fails
ReqSegmentDone_return(r) ==
    /\ Store(r.s)
    /\ req' = [req EXCEPT
                 !.err = r.err,
                 !.att = r.s.att,
                 !.vecs[req.k].bv_page = r.page,
                 !.sector = IF r.err # 0 THEN @
                            ELSE @ + Shr(req.vecs[req.k].bv_len, SECTOR_SHIFT),
                 !.k = IF r.err # 0 THEN @ ELSE @ + 1,
                 !.pc = IF r.err # 0 THEN "done"
                        ELSE IF req.k = Len(req.vecs) THEN "out"
                        ELSE "segment"]

\* if (err) break; sector += len >> SECTOR_SHIFT; and the end of the loop:
\* r is what brk_do_bvec gave for segment k
ReqSegmentDone(r) ==
    /\ Store(r.s)
    /\ req' = [req EXCEPT
                 !.err = r.err,
                 !.att = r.s.att,
                 !.vecs[req.k].bv_page = r.page,
                 !.sector = IF r.err # 0 THEN @
                            ELSE @ + Shr(req.vecs[req.k].bv_len, SECTOR_SHIFT),
                 !.k = IF r.err # 0 THEN @ ELSE @ + 1,
                 !.pc = IF r.err # 0 \/ req.k = Len(req.vecs) THEN "out"
                        ELSE "segment"]

\* one round of bio_for_each_segment: err = brk_do_bvec(brk, bvec.bv_page,
\* len, bvec.bv_offset, rw, sector)
ReqSegment ==
    /\ req.pc = "segment"
    /\ \E r \in {brk_do_bvec(ReqStore, req.vecs[req.k].bv_page,
                              req.vecs[req.k].bv_len, req.vecs[req.k].bv_offset,
                              req.bio.rw, req.sector)} :
          ReqSegmentDone(r)
    /\ UNCHANGED <<nops, ReqIdle>>

\* out: bio_endio(bio, err)
ReqEndio ==
    /\ req.pc = "out"
    /\ req' = [req EXCEPT !.pc = "done", !.endio = @ + 1]
    /\ UNCHANGED <<brk_pages, mem, bug, nops, ReqIdle>>

\* brk_make_request returns
ReqReturn ==
    /\ req.pc = "done"
    /\ req' = NoReq
    /\ UNCHANGED <<brk_pages, mem, bug, nops, ReqIdle>>

NextReq == ReqSubmit \/ ReqCheck \/ ReqSegment \/ ReqEndio \/ ReqReturn

\* brk_make_request runs in the context of its caller and does not wait for
\* anything: once entered, it goes on
SpecReq ==
    Init /\ [][NextReq]_vars
         /\ WF_vars(ReqCheck \/ ReqSegment \/ ReqEndio \/ ReqReturn)

----------------------------------------------------------------------------
(* The translation of a sector range to pages and offsets, as              *)
(* copy_to_brk_setup and copy_to_brk work it out, at a given geometry: ss  *)
(* is SECTOR_SHIFT and ps is PAGE_SHIFT.                                   *)

\* sector >> PAGE_SECTORS_SHIFT
PageIndexAt(sector, ss, ps) == Shr(sector, ps - ss)

\* PageOffsetAt with the mask PAGE_SECTORS in place of PAGE_SECTORS-1
PageOffsetAt_mask(sector, ss, ps) ==
    Shl(((sector \div Pow2(ps - ss)) % 2) * Pow2(ps - ss), ss)

\* (sector & (PAGE_SECTORS-1)) << SECTOR_SHIFT
PageOffsetAt(sector, ss, ps) == Shl(sector % Pow2(ps - ss), ss)

\* min_t(size_t, n, PAGE_SIZE - offset)
CopyLenAt(sector, n, ss, ps) == Min(n, Pow2(ps) - PageOffsetAt(sector, ss, ps))

\* the geometries looked at: 512 byte sectors with 4096 byte pages, which
\* the driver is built with, and with 8192 byte pages
Geometries == {<<9, 12>>, <<9, 13>>}

\* the sectors and lengths looked at; a segment is no longer than a page
GeoSectors == 990..1010
GeoLens == {100, 512, 1024, 4096}

GeoIdle == <<brk_pages, mem, bug, last, nops, written, brk_lock, brk_mutex,
             thr, req>>

\* a write of n bytes at sector comes to copy_to_brk_setup
GeoPick ==
    /\ geo.pc = "none"
    /\ \E g \in Geometries, sector \in GeoSectors, n \in GeoLens :
          /\ n <= Pow2(g[2])
          /\ geo' = [NoGeo EXCEPT !.pc = "input", !.ss = g[1], !.ps = g[2],
                                  !.sector = sector, !.n = n]
    /\ UNCHANGED GeoIdle

\* offset and copy as lines 207-210 and 248-258 work them out; the pages
\* lines 211-216 insert and the bytes lines 287-298 copy to each
GeoTranslate ==
    /\ geo.pc = "input"
    /\ LET offset == PageOffsetAt(geo.sector, geo.ss, geo.ps)
           copy == CopyLenAt(geo.sector, geo.n, geo.ss, geo.ps)
           first == PageIndexAt(geo.sector, geo.ss, geo.ps)
           second == PageIndexAt(geo.sector + Shr(copy, geo.ss), geo.ss, geo.ps)
       IN  geo' = [geo EXCEPT
                     !.pc = "done", !.offset = offset, !.copy = copy,
                     !.ensured = IF copy < geo.n THEN <<first, second>>
                                 ELSE <<first>>,
                     !.lens = IF copy < geo.n THEN <<copy, geo.n - copy>>
                              ELSE <<copy>>]
    /\ UNCHANGED GeoIdle

\* the write is over
GeoDone ==
    /\ geo.pc = "done"
    /\ geo' = NoGeo
    /\ UNCHANGED GeoIdle

NextGeo == GeoPick \/ GeoTranslate \/ GeoDone

SpecGeo == Init /\ [][NextGeo]_vars

----------------------------------------------------------------------------
(* The device driven by several threads at once: every lookup, allocation,  *)
(* lock operation, tree update and copy is a step of its own.  The threads  *)
(* submit writes of one segment and discards; one of them may call the      *)
(* BLKFLSBUF ioctl, which the block layer lets in with one opener.          *)

Sequential == <<last, written, req, geo>>

\* the ranges the threads write: whole sectors that end within the capacity
ConcWrites ==
    {<<sector, n>> \in (0..(get_capacity - 1)) \X {SECTOR_SIZE, PAGE_SIZE} :
        sector + Shr(n, SECTOR_SHIFT) <= get_capacity}

\* the ranges the threads discard: whole pages that end within the capacity
ConcDiscards ==
    {<<sector, n>> \in (0..(get_capacity - 1)) \X {PAGE_SIZE, 2 * PAGE_SIZE} :
        sector + Shr(n, SECTOR_SHIFT) <= get_capacity}

\* copy = min_t(size_t, n, PAGE_SIZE - offset) of the thread's range
CopyOf(r) == CopyLen(r.sector, r.n)

\* a BUG_ON fires: the thread dies where it is
Oops(t) ==
    /\ bug' = TRUE
    /\ thr' = [thr EXCEPT ![t].pc = "oops"]

\* the entry point returns err
Return(t, err) == thr' = [thr EXCEPT ![t].pc = "idle", ![t].err = err]

StartWrite(t) ==
    /\ thr[t].pc = "idle"
    /\ nops < MaxOps
    /\ \E w \in ConcWrites :
          thr' = [thr EXCEPT ![t] = [Idle EXCEPT !.pc = "ins_lookup",
                                                 !.op = WRITE,
                                                 !.sector = w[1], !.n = w[2],
                                                 !.cur = w[1]]]
    /\ nops' = nops + 1
    /\ UNCHANGED <<brk_pages, mem, bug, brk_lock, brk_mutex, Sequential>>

\* InsReturned with copy_to_brk_setup returning 0 after its first page
InsReturned_first(t, page) ==
    thr' = [thr EXCEPT ![t].got = Append(thr[t].got, page), ![t].page = page,
                       ![t].which = 1, ![t].cur = thr[t].sector,
                       ![t].pc = "cp_lookup"]

\* brk_insert_page: page = brk_lookup_page(brk, sector); if (page) return page
\* and what copy_to_brk_setup does with a page returned
InsReturned(t, page) ==
    LET r == thr[t]
        got == Append(r.got, page)
    IN  IF r.which = 1 /\ CopyOf(r) < r.n
        THEN thr' = [thr EXCEPT ![t].got = got, ![t].page = page,
                                ![t].which = 2,
                                ![t].cur = r.sector + Shr(CopyOf(r), SECTOR_SHIFT),
                                ![t].pc = "ins_lookup"]
        ELSE thr' = [thr EXCEPT ![t].got = got, ![t].page = page,
                                ![t].which = 1, ![t].cur = r.sector,
                                ![t].pc = "cp_lookup"]

InsLookup(t) ==
    /\ thr[t].pc = "ins_lookup"
    /\ LET idx == PageIndex(thr[t].cur)
           page == radix_tree_lookup(brk_pages, idx)
       IN  IF page = NULL
           THEN thr' = [thr EXCEPT ![t].pc = "ins_alloc"] /\ UNCHANGED bug
           ELSE IF page \in DOMAIN mem /\ mem[page].index = idx
           THEN InsReturned(t, page) /\ UNCHANGED bug
           ELSE Oops(t)
    /\ UNCHANGED <<brk_pages, mem, brk_lock, brk_mutex, nops, Sequential>>

\* page = alloc_page(gfp_flags); if (!page) return NULL
InsAlloc(t) ==
    /\ thr[t].pc = "ins_alloc"
    /\ \E ok \in BOOLEAN :
          IF ok /\ ~(PageIds \subseteq DOMAIN mem)
          THEN /\ mem' = NewPage(mem, Lowest(PageIds \ DOMAIN mem))
               /\ thr' = [thr EXCEPT ![t].page = Lowest(PageIds \ DOMAIN mem),
                                       ![t].pc = "ins_preload"]
          ELSE /\ mem' = mem
               /\ Return(t, -ENOSPC)
    /\ UNCHANGED <<brk_pages, bug, brk_lock, brk_mutex, nops, Sequential>>

\* if (radix_tree_preload(GFP_NOIO)) { __free_page(page); return NULL; }
InsPreload(t) ==
    /\ thr[t].pc = "ins_preload"
    /\ \E ok \in BOOLEAN :
          IF ok
          THEN mem' = mem /\ thr' = [thr EXCEPT ![t].pc = "ins_lock"]
          ELSE mem' = free_page(mem, thr[t].page) /\ Return(t, -ENOSPC)
    /\ UNCHANGED <<brk_pages, bug, brk_lock, brk_mutex, nops, Sequential>>

\* InsLock going on without the lock
InsLock_nolock(t) ==
    /\ thr[t].pc = "ins_lock"
    /\ thr' = [thr EXCEPT ![t].pc = "ins_tag"]
    /\ UNCHANGED <<brk_pages, mem, bug, brk_lock, brk_mutex, nops, Sequential>>

\* spin_lock(&brk->brk_lock)
InsLock(t) ==
    /\ thr[t].pc = "ins_lock"
    /\ brk_lock = NoThread
    /\ brk_lock' = t
    /\ thr' = [thr EXCEPT ![t].pc = "ins_tag"]
    /\ UNCHANGED <<brk_pages, mem, bug, brk_mutex, nops, Sequential>>

\* InsTag leaving page->index as alloc_page gave it
InsTag_untagged(t) ==
    /\ thr[t].pc = "ins_tag"
    /\ thr' = [thr EXCEPT ![t].pc = "ins_insert"]
    /\ UNCHANGED <<brk_pages, mem, bug, brk_lock, brk_mutex, nops, Sequential>>

\* page->index = idx
InsTag(t) ==
    /\ thr[t].pc = "ins_tag"
    /\ mem' = [mem EXCEPT ![thr[t].page].index = PageIndex(thr[t].cur)]
    /\ thr' = [thr EXCEPT ![t].pc = "ins_insert"]
    /\ UNCHANGED <<brk_pages, bug, brk_lock, brk_mutex, nops, Sequential>>

\* InsInsert putting its page into the tree whether or not the index is taken
InsInsert_norecheck(t) ==
    /\ thr[t].pc = "ins_insert"
    /\ brk_pages' = radix_tree_insert(brk_pages, PageIndex(thr[t].cur),
                                      thr[t].page)
    /\ mem' = mem
    /\ thr' = [thr EXCEPT ![t].pc = "ins_unlock"]
    /\ UNCHANGED <<bug, brk_lock, brk_mutex, nops, Sequential>>

\* if (radix_tree_insert(&brk->brk_pages, idx, page)) __free_page(page)
InsInsert(t) ==
    /\ thr[t].pc = "ins_insert"
    /\ LET idx == PageIndex(thr[t].cur)
       IN  IF idx \in DOMAIN brk_pages
           THEN /\ mem' = free_page(mem, thr[t].page)
                /\ brk_pages' = brk_pages
                /\ thr' = [thr EXCEPT ![t].pc = "ins_relookup",
                                        ![t].raced = TRUE]
           ELSE /\ brk_pages' = radix_tree_insert(brk_pages, idx, thr[t].page)
                /\ mem' = mem
                /\ thr' = [thr EXCEPT ![t].pc = "ins_unlock"]
    /\ UNCHANGED <<bug, brk_lock, brk_mutex, nops, Sequential>>

\* page = radix_tree_lookup(...); BUG_ON(!page); BUG_ON(page->index != idx)
InsRelookup(t) ==
    /\ thr[t].pc = "ins_relookup"
    /\ LET idx == PageIndex(thr[t].cur)
           page == radix_tree_lookup(brk_pages, idx)
       IN  IF page # NULL /\ page \in DOMAIN mem /\ mem[page].index = idx
           THEN thr' = [thr EXCEPT ![t].page = page, ![t].pc = "ins_unlock"]
                /\ UNCHANGED bug
           ELSE Oops(t)
    /\ UNCHANGED <<brk_pages, mem, brk_lock, brk_mutex, nops, Sequential>>

\* InsUnlock returning the page with brk_lock still held
InsUnlock_held(t) ==
    /\ thr[t].pc = "ins_unlock"
    /\ InsReturned(t, thr[t].page)
    /\ UNCHANGED <<brk_pages, mem, bug, brk_lock, brk_mutex, nops, Sequential>>

\* spin_unlock(&brk->brk_lock); radix_tree_preload_end(); return page
InsUnlock(t) ==
    /\ thr[t].pc = "ins_unlock"
    /\ brk_lock' = IF brk_lock = t THEN NoThread ELSE brk_lock
    /\ InsReturned(t, thr[t].page)
    /\ UNCHANGED <<brk_pages, mem, bug, brk_mutex, nops, Sequential>>

\* copy_to_brk: page = brk_lookup_page(brk, sector); BUG_ON(!page)
CpLookup(t) ==
    /\ thr[t].pc = "cp_lookup"
    /\ LET idx == PageIndex(thr[t].cur)
           page == radix_tree_lookup(brk_pages, idx)
       IN  IF page # NULL /\ page \in DOMAIN mem /\ mem[page].index = idx
           THEN thr' = [thr EXCEPT ![t].page = page, ![t].pc = "cp_copy"]
                /\ UNCHANGED bug
           ELSE Oops(t)
    /\ UNCHANGED <<brk_pages, mem, brk_lock, brk_mutex, nops, Sequential>>

\* copy_to_brk: memcpy(dst + offset, src, copy), memcpy(dst, src, copy).
\* The bytes go to wherever the pointer page leads; a page freed since the
\* lookup is a use after free, counted with the BUG_ONs.
CpCopy(t) ==
    /\ thr[t].pc = "cp_copy"
    /\ LET r == thr[t]
           copy == CopyOf(r)
       IN  IF r.page \notin DOMAIN mem
           THEN Oops(t) /\ mem' = mem
           ELSE IF r.which = 1
           THEN /\ mem' = [mem EXCEPT ![r.page].data =
                              memcpy(@, PageOffset(r.sector), Pattern, 0, copy)]
                /\ bug' = bug
                /\ IF copy < r.n
                   THEN thr' = [thr EXCEPT
                                  ![t].which = 2,
                                  ![t].cur = r.sector + Shr(copy, SECTOR_SHIFT),
                                  ![t].pc = "cp_lookup"]
                   ELSE Return(t, 0)
           ELSE /\ mem' = [mem EXCEPT ![r.page].data =
                              memcpy(@, 0, Pattern, copy, r.n - copy)]
                /\ bug' = bug
                /\ Return(t, 0)
    /\ UNCHANGED <<brk_pages, brk_lock, brk_mutex, nops, Sequential>>

StartDiscard(t) ==
    /\ thr[t].pc = "idle"
    /\ nops < MaxOps
    /\ \E d \in ConcDiscards :
          thr' = [thr EXCEPT ![t] = [Idle EXCEPT !.pc = "zero_lookup",
                                                 !.op = REQ_DISCARD,
                                                 !.sector = d[1], !.n = d[2],
                                                 !.cur = d[1], !.left = d[2]]]
    /\ nops' = nops + 1
    /\ UNCHANGED <<brk_pages, mem, bug, brk_lock, brk_mutex, Sequential>>

\* discard_from_brk: while (n >= PAGE_SIZE), and in brk_zero_page
\* page = brk_lookup_page(brk, sector)
ZeroLookup(t) ==
    /\ thr[t].pc = "zero_lookup"
    /\ LET r == thr[t]
           idx == PageIndex(r.cur)
           page == radix_tree_lookup(brk_pages, idx)
       IN  IF r.left < PAGE_SIZE
           THEN Return(t, 0) /\ UNCHANGED bug
           ELSE IF page = NULL
           THEN thr' = [thr EXCEPT ![t].cur = r.cur + Shr(PAGE_SIZE, SECTOR_SHIFT),
                                   ![t].left = r.left - PAGE_SIZE]
                /\ UNCHANGED bug
           ELSE IF page \in DOMAIN mem /\ mem[page].index = idx
           THEN thr' = [thr EXCEPT ![t].page = page, ![t].pc = "zero_clear"]
                /\ UNCHANGED bug
           ELSE Oops(t)
    /\ UNCHANGED <<brk_pages, mem, brk_lock, brk_mutex, nops, Sequential>>

\* brk_zero_page: clear_highpage(page); then sector += ..., n -= PAGE_SIZE
ZeroClear(t) ==
    /\ thr[t].pc = "zero_clear"
    /\ LET r == thr[t]
       IN  IF r.page \notin DOMAIN mem
           THEN Oops(t) /\ mem' = mem
           ELSE /\ mem' = [mem EXCEPT ![r.page].data = ZeroData]
                /\ bug' = bug
                /\ thr' = [thr EXCEPT
                             ![t].cur = r.cur + Shr(PAGE_SIZE, SECTOR_SHIFT),
                             ![t].left = r.left - PAGE_SIZE,
                             ![t].pc = "zero_lookup"]
    /\ UNCHANGED <<brk_pages, brk_lock, brk_mutex, nops, Sequential>>

ThreadIO(t) ==
    \/ StartWrite(t) \/ InsLookup(t) \/ InsAlloc(t) \/ InsPreload(t)
    \/ InsLock(t) \/ InsTag(t) \/ InsInsert(t) \/ InsRelookup(t)
    \/ InsUnlock(t) \/ CpLookup(t) \/ CpCopy(t)
    \/ StartDiscard(t) \/ ZeroLookup(t) \/ ZeroClear(t)

NextIO == \E t \in Threads : ThreadIO(t)

SpecIO == Init /\ [][NextIO]_vars

\* brk_ioctl(BLKFLSBUF): mutex_lock(&brk_mutex); mutex_lock(&bdev->bd_mutex)
StartFlush(t) ==
    /\ thr[t].pc = "idle"
    /\ nops < MaxOps
    /\ \E bd_openers \in 0..MaxOpeners :
          thr' = [thr EXCEPT ![t] = [Idle EXCEPT !.pc = "fl_lock",
                                                 !.op = BLKFLSBUF,
                                                 !.n = bd_openers]]
    /\ nops' = nops + 1
    /\ UNCHANGED <<brk_pages, mem, bug, brk_lock, brk_mutex, Sequential>>

\* the mutexes are taken; error = -EBUSY; if (bdev->bd_openers <= 1) ...
FlLock(t) ==
    /\ thr[t].pc = "fl_lock"
    /\ brk_mutex = NoThread
    /\ brk_mutex' = t
    /\ IF thr[t].n <= 1
       THEN thr' = [thr EXCEPT ![t].pc = "fl_gang", ![t].pos = 0, ![t].err = 0]
       ELSE thr' = [thr EXCEPT ![t].pc = "fl_unlock", ![t].err = -EBUSY]
    /\ UNCHANGED <<brk_pages, mem, bug, brk_lock, nops, Sequential>>

\* brk_free_pages: nr_pages = radix_tree_gang_lookup(..., pos, FREE_BATCH);
\* with no page found: pos++ and the loop ends
FlGang(t) ==
    /\ thr[t].pc = "fl_gang"
    /\ LET pages == radix_tree_gang_lookup(brk_pages, thr[t].pos, FREE_BATCH)
       IN  IF pages = <<>>
           THEN thr' = [thr EXCEPT ![t].batch = pages, ![t].pos = @ + 1,
                                   ![t].pc = "fl_unlock"]
           ELSE thr' = [thr EXCEPT ![t].batch = pages, ![t].i = 1,
                                   ![t].pc = "fl_delete"]
    /\ UNCHANGED <<brk_pages, mem, bug, brk_lock, brk_mutex, nops, Sequential>>

\* FlDelete with the do loop left after its first batch
FlDelete_onebatch(t) ==
    /\ thr[t].pc = "fl_delete"
    /\ LET r == thr[t]
           page == r.batch[r.i]
           pos == mem[page].index
           ret == radix_tree_lookup(brk_pages, pos)
       IN  IF page \notin DOMAIN mem
           THEN Oops(t) /\ UNCHANGED <<brk_pages, mem>>
           ELSE IF pos < r.pos \/ ret = NULL \/ ret # page
           THEN Oops(t) /\ UNCHANGED <<brk_pages, mem>>
           ELSE /\ brk_pages' = radix_tree_delete(brk_pages, pos)
                /\ mem' = free_page(mem, page)
                /\ bug' = bug
                /\ IF r.i < Len(r.batch)
                   THEN thr' = [thr EXCEPT ![t].pos = pos, ![t].i = r.i + 1]
                   ELSE thr' = [thr EXCEPT ![t].pos = pos + 1,
                                           ![t].pc = "fl_unlock"]
    /\ UNCHANGED <<brk_lock, brk_mutex, nops, Sequential>>

\* one round of the for loop: BUG_ON(pages[i]->index < pos); pos = index;
\* ret = radix_tree_delete(...); BUG_ON(!ret || ret != pages[i]);
\* __free_page(pages[i]); after the last round pos++ and the while test
FlDelete(t) ==
    /\ thr[t].pc = "fl_delete"
    /\ LET r == thr[t]
           page == r.batch[r.i]
           pos == mem[page].index
           ret == radix_tree_lookup(brk_pages, pos)
       IN  IF page \notin DOMAIN mem
           THEN Oops(t) /\ UNCHANGED <<brk_pages, mem>>
           ELSE IF pos < r.pos \/ ret = NULL \/ ret # page
           THEN Oops(t) /\ UNCHANGED <<brk_pages, mem>>
           ELSE /\ brk_pages' = radix_tree_delete(brk_pages, pos)
                /\ mem' = free_page(mem, page)
                /\ bug' = bug
                /\ IF r.i < Len(r.batch)
                   THEN thr' = [thr EXCEPT ![t].pos = pos, ![t].i = r.i + 1]
                   ELSE thr' = [thr EXCEPT
                                  ![t].pos = pos + 1,
                                  ![t].pc = IF Len(r.batch) = FREE_BATCH
                                            THEN "fl_gang" ELSE "fl_unlock"]
    /\ UNCHANGED <<brk_lock, brk_mutex, nops, Sequential>>

\* mutex_unlock(&bdev->bd_mutex); mutex_unlock(&brk_mutex); return error
FlUnlock(t) ==
    /\ thr[t].pc = "fl_unlock"
    /\ brk_mutex' = NoThread
    /\ Return(t, thr[t].err)
    /\ UNCHANGED <<brk_pages, mem, bug, brk_lock, nops, Sequential>>

ThreadFlush(t) ==
    \/ StartFlush(t) \/ FlLock(t) \/ FlGang(t) \/ FlDelete(t) \/ FlUnlock(t)

NextConc == \E t \in Threads : ThreadIO(t) \/ ThreadFlush(t)

SpecConc == Init /\ [][NextConc]_vars

----------------------------------------------------------------------------
(* brk_free_pages on any store: the device holds some pages when the       *)
(* BLKFLSBUF callers come, and nothing else runs.                          *)

\* the highest page index a store starts with
MaxFreeIdx == 5

\* the page that holds index i in such a store
FreePage(i) == MaxFreeIdx - i + 1

\* the radix tree holding the indices in idxs, and its pages
FreeTree(idxs) == [i \in idxs |-> FreePage(i)]
FreeMem(idxs) ==
    [p \in {FreePage(i) : i \in idxs} |->
        [index |-> MaxFreeIdx - p + 1, data |-> Pattern]]

InitFree ==
    /\ \E idxs \in SUBSET (0..MaxFreeIdx) :
          /\ brk_pages = FreeTree(idxs)
          /\ mem = FreeMem(idxs)
    /\ bug = FALSE
    /\ last = NoCall
    /\ nops = 0
    /\ written = {}
    /\ brk_lock = NoThread
    /\ brk_mutex = NoThread
    /\ thr = [t \in Threads |-> Idle]
    /\ req = NoReq
    /\ geo = NoGeo

FlushStep(t) == FlLock(t) \/ FlGang(t) \/ FlDelete(t) \/ FlUnlock(t)

NextFree == \E t \in Threads : ThreadFlush(t)

\* a thread inside brk_ioctl goes on: the mutexes are given to one who
\* waits, and brk_free_pages waits for nothing
SpecFree ==
    InitFree /\ [][NextFree]_vars /\ \A t \in Threads : WF_vars(FlushStep(t))

----------------------------------------------------------------------------
(* Reads of one segment, run by the threads next to writes and discards *)

StartRead(t) ==
    /\ thr[t].pc = "idle"
    /\ nops < MaxOps
    /\ \E w \in ConcWrites :
          thr' = [thr EXCEPT ![t] = [Idle EXCEPT
                                       !.pc = "rd_lookup", !.op = READ,
                                       !.sector = w[1], !.n = w[2],
                                       !.cur = w[1],
                                       !.buf = [i \in 0..(w[2] - 1) |-> Poison]]]
    /\ nops' = nops + 1
    /\ UNCHANGED <<brk_pages, mem, bug, brk_lock, brk_mutex, Sequential>>

\* copy_from_brk: page = brk_lookup_page(brk, sector)
RdLookup(t) ==
    /\ thr[t].pc = "rd_lookup"
    /\ LET idx == PageIndex(thr[t].cur)
           page == radix_tree_lookup(brk_pages, idx)
       IN  IF page = NULL \/ (page \in DOMAIN mem /\ mem[page].index = idx)
           THEN thr' = [thr EXCEPT ![t].page = page, ![t].pc = "rd_copy"]
                /\ UNCHANGED bug
           ELSE Oops(t)
    /\ UNCHANGED <<brk_pages, mem, brk_lock, brk_mutex, nops, Sequential>>

\* copy_from_brk: if (page) memcpy(dst, src + offset, copy); else
\* memset(dst, 0, copy); then the same for the second page.  A page freed
\* since the lookup is a use after free, counted with the BUG_ONs.
RdCopy(t) ==
    /\ thr[t].pc = "rd_copy"
    /\ LET r == thr[t]
           copy == CopyOf(r)
       IN  IF r.page # NULL /\ r.page \notin DOMAIN mem
           THEN Oops(t)
           ELSE /\ bug' = bug
                /\ IF r.which = 1
                   THEN thr' = [thr EXCEPT
                          ![t].buf = CopyOut(@, 0, [mem |-> mem], r.page,
                                             PageOffset(r.sector), copy),
                          ![t].which = IF copy < r.n THEN 2 ELSE 1,
                          ![t].cur = IF copy < r.n
                                     THEN r.sector + Shr(copy, SECTOR_SHIFT)
                                     ELSE r.cur,
                          ![t].pc = IF copy < r.n THEN "rd_lookup" ELSE "idle",
                          ![t].err = 0]
                   ELSE thr' = [thr EXCEPT
                          ![t].buf = CopyOut(@, copy, [mem |-> mem], r.page,
                                             0, r.n - copy),
                          ![t].pc = "idle", ![t].err = 0]
    /\ UNCHANGED <<brk_pages, mem, brk_lock, brk_mutex, nops, Sequential>>

ThreadRead(t) == StartRead(t) \/ RdLookup(t) \/ RdCopy(t)

NextRW == \E t \in Threads : ThreadIO(t) \/ ThreadRead(t)

SpecRW == Init /\ [][NextRW]_vars

----------------------------------------------------------------------------
(* What the claims speak of *)

Now == Cur(NoFate)
After == [tree |-> brk_pages', mem |-> mem', bug |-> bug', att |-> 0,
          fate |-> NoFate]

\* what copy_from_brk stores into a fresh n byte buffer
ReadOf(s, sector, n) ==
    copy_from_brk([i \in 0..(n - 1) |-> Poison], 0, s, sector, n)

\* the n bytes of a segment's data, as a region
DataOf(bvec) == [i \in 0..(bvec.bv_len - 1) |-> bvec.bv_page[bvec.bv_offset + i]]

AllZero(region) == \A i \in DOMAIN region : region[i] = 0

\* the contents of page idx as a read sees them; an absent page reads as zero
PageRead(s, idx) == ReadOf(s, Shl(idx, PAGE_SECTORS_SHIFT), PAGE_SIZE)

\* page idx is there in both or in neither, with the same bytes
SamePage(s, t, idx) ==
    /\ (idx \in DOMAIN s.tree) = (idx \in DOMAIN t.tree)
    /\ idx \in DOMAIN s.tree => s.mem[s.tree[idx]].data = t.mem[t.tree[idx]].data

StoreUnchanged == brk_pages' = brk_pages /\ mem' = mem

IsWrite(c) == c.op \in {"make_request", "rw_page"} /\ c.bio.rw = WRITE
IsRead(c) == c.op \in {"make_request", "rw_page"} /\ c.bio.rw = READ
IsDiscard(c) == c.op = "make_request" /\ c.bio.rw = REQ_DISCARD
InRange(c) == c.op = "make_request" => bio_end_sector(c.bio) <= get_capacity
IsFlush(c) == c.op = "ioctl" /\ c.cmd = BLKFLSBUF

\* the last segment of the last call
LastSeg == last.bio.bi_io_vec[Len(last.bio.bi_io_vec)]
LastSegSector == SegSector(last.bio, Len(last.bio.bi_io_vec))

\* the pages a discard of n bytes at sector covers wholly, and those it
\* covers no sector of; the range is [sector, sector + n / sector size)
PageSectors(idx) ==
    Shl(idx, PAGE_SECTORS_SHIFT)..(Shl(idx + 1, PAGE_SECTORS_SHIFT) - 1)
DiscardRange(bio) == bio.bi_sector..(bio_end_sector(bio) - 1)
AllIdx == 0..PageIndex(get_capacity + PAGE_SECTORS)

\* C1: in the state a successful write call leaves, reading the range of
\* its last segment returns exactly the bytes of that segment, whatever the
\* offset of the range in its page and whether or not it crosses into the
\* next page.
C1_WriteThenRead ==
    (IsWrite(last) /\ last.err = 0) =>
        ReadOf(Now, LastSegSector, LastSeg.bv_len) = DataOf(LastSeg)

\* a write that starts inside a page and ends in the next one went through
C1_Witness ==
    /\ IsWrite(last) /\ last.err = 0
    /\ PageOffset(LastSegSector) # 0
    /\ PageOffset(LastSegSector) + LastSeg.bv_len > PAGE_SIZE
    /\ LastSeg.bv_offset # 0

\* C2: a read of sectors no write has copied data to returns only zero
\* bytes, and no read adds, removes or changes a page.
C2_ReadState ==
    \A k \in 1..Len(last.vecs) :
        (IsRead(last) /\ last.err = 0
           /\ SectorsOf(SegSector(last.bio, k), last.vecs[k].bv_len)
                 \cap written = {})
        => AllZero(DataOf(last.vecs[k]))

C2_ReadStep == IsRead(last') => StoreUnchanged

C2_ReadUnwritten == []C2_ReadState /\ [][C2_ReadStep]_vars

\* an unwritten range was read that starts in a present page and ends in an
\* absent one
C2_Witness ==
    /\ IsRead(last) /\ last.err = 0 /\ Len(last.vecs) = 1
    /\ SectorsOf(last.bio.bi_sector, LastSeg.bv_len) \cap written = {}
    /\ PageOffset(last.bio.bi_sector) + LastSeg.bv_len > PAGE_SIZE
    /\ PageIndex(last.bio.bi_sector) \in DOMAIN brk_pages
    /\ PageIndex(last.bio.bi_sector) + 1 \notin DOMAIN brk_pages
    /\ written # {}

\* C4: a request that ends beyond the capacity completes with an error,
\* leaves every segment buffer as it was and leaves the store as it was.
C4_OutOfRangeStep ==
    (last'.op = "make_request" /\ ~InRange(last')) =>
        /\ last'.err # 0
        /\ last'.vecs = last'.bio.bi_io_vec
        /\ last'.done = 0
        /\ StoreUnchanged

C4_OutOfRange == [][C4_OutOfRangeStep]_vars

\* a write beyond the capacity was refused while the store held pages
C4_Witness ==
    /\ last.op = "make_request" /\ ~InRange(last)
    /\ last.bio.rw = WRITE /\ last.bio.bi_sector < get_capacity
    /\ last.had # {}

\* the byte at device address a as a read sees it
ByteAt(s, a) ==
    LET idx == a \div PAGE_SIZE
    IN  IF idx \in DOMAIN s.tree THEN s.mem[s.tree[idx]].data[a % PAGE_SIZE]
        ELSE 0

AllBytes == 0..(Shl(Cardinality(AllIdx), PAGE_SHIFT) - 1)

\* the device bytes segment k of a bio covers
SegBytes(bio, k) ==
    LET first == Shl(SegSector(bio, k), SECTOR_SHIFT)
    IN  first..(first + bio.bi_io_vec[k].bv_len - 1)

\* C5: when a write request fails for lack of memory in some segment, it
\* reports the failure, the segments before it read back as written, every
\* byte outside those segments is as it was before the request (the failing
\* segment and the ones after it copy nothing), and no page that was in the
\* store or that an earlier segment needed has gone.
C5_FailedWriteStep ==
    (IsWrite(last') /\ InRange(last') /\ last'.err = -ENOSPC) =>
        LET bio == last'.bio
            done == 1..last'.done
        IN  /\ last'.done < Len(bio.bi_io_vec)
            /\ \A k \in done :
                  ReadOf(After, SegSector(bio, k), bio.bi_io_vec[k].bv_len)
                     = DataOf(bio.bi_io_vec[k])
            /\ \A a \in AllBytes :
                  (\A k \in done : a \notin SegBytes(bio, k))
                     => ByteAt(After, a) = ByteAt(Now, a)
            /\ DOMAIN brk_pages \subseteq DOMAIN brk_pages'
            /\ \A k \in done : \A a \in SegBytes(bio, k) :
                  a \div PAGE_SIZE \in DOMAIN brk_pages'

C5_FailedWrite == [][C5_FailedWriteStep]_vars

\* the second segment of a write failed after the first had gone through,
\* on a store that already held pages
C5_Witness ==
    /\ IsWrite(last) /\ InRange(last) /\ last.err = -ENOSPC
    /\ last.done = 1 /\ Len(last.bio.bi_io_vec) = 2
    /\ last.had # {}

\* C6: after a discard every page that lies wholly inside the range reads
\* as zero, and every page that has no sector in the range is as it was.
C6_DiscardStep ==
    (IsDiscard(last') /\ InRange(last')) =>
        /\ \A idx \in AllIdx :
              PageSectors(idx) \subseteq DiscardRange(last'.bio)
                 => AllZero(PageRead(After, idx))
        /\ \A idx \in AllIdx :
              PageSectors(idx) \cap DiscardRange(last'.bio) = {}
                 => SamePage(Now, After, idx)

C6_DiscardCovers == [][C6_DiscardStep]_vars

\* the pages the loop of discard_from_brk looks up for a bio
DiscardTouched(bio) ==
    {PageIndex(bio.bi_sector + j * PAGE_SECTORS) :
        j \in 0..(bio.bi_size \div PAGE_SIZE - 1)}

\* C7: a discard within the capacity succeeds and leaves the tree and the
\* set of allocated pages as they were.
C7_DiscardKeepsStep ==
    (IsDiscard(last') /\ InRange(last')) =>
        /\ brk_pages' = brk_pages
        /\ DOMAIN mem' = DOMAIN mem
        /\ last'.err = 0

C7_DiscardKeeps == [][C7_DiscardKeepsStep]_vars

\* a discard went over a present page, which now reads as zero though it
\* had been written, and over an absent one
C7_Witness ==
    /\ IsDiscard(last) /\ InRange(last)
    /\ DiscardTouched(last.bio) \cap last.had # {}
    /\ DiscardTouched(last.bio) \ last.had # {}
    /\ \E idx \in DiscardTouched(last.bio) \cap last.had :
          /\ PageSectors(idx) \cap written # {}
          /\ AllZero(PageRead(Now, idx))

\* C8: after a successful BLKFLSBUF no page is in the tree, none is
\* allocated, and every range of the device reads as zero.
C8_FlushEmpties ==
    (IsFlush(last) /\ last.err = 0) =>
        /\ brk_pages = <<>>
        /\ mem = <<>>
        /\ \A sector \in 0..(get_capacity - 1), n \in 1..PAGE_SIZE :
              AllZero(ReadOf(Now, sector, n))

\* a flush went through on a store of more pages than one batch holds
C8_Witness ==
    /\ IsFlush(last) /\ last.err = 0
    /\ Cardinality(last.had) > FREE_BATCH
    /\ written # {}

\* C9: BLKFLSBUF with more than one opener returns -EBUSY and leaves the
\* store as it was; an ioctl that releases a page has at most one opener.
C9_BusyStep ==
    /\ (IsFlush(last') /\ last'.bd_openers > 1)
          => (last'.err = -EBUSY /\ StoreUnchanged)
    /\ (last'.op = "ioctl" /\ ~StoreUnchanged)
          => (last'.bd_openers <= 1 /\ last'.err = 0)

C9_Busy == [][C9_BusyStep]_vars

\* a flush was refused while the store held pages
C9_Witness ==
    /\ IsFlush(last) /\ last.bd_openers > 1 /\ last.err = -EBUSY
    /\ last.had # {} /\ DOMAIN brk_pages = last.had

\* the sector of the k-th page of a thread's range
NthSector(r, k) ==
    IF k = 1 THEN r.sector ELSE r.sector + Shr(CopyOf(r), SECTOR_SHIFT)

\* C3: with threads running brk_insert_page at once and none removing
\* pages, every page brk_insert_page has returned to a caller is the one
\* page the tree holds for that index (so all callers for an index hold the
\* same page), and once every call has returned the allocated pages are
\* exactly the pages in the tree, one per index: a page that lost the race
\* has been released.
C3_OneLivePage ==
    /\ \A t \in Threads : \A k \in 1..Len(thr[t].got) :
          LET idx == PageIndex(NthSector(thr[t], k))
          IN  idx \in DOMAIN brk_pages /\ brk_pages[idx] = thr[t].got[k]
    /\ (\A t \in Threads : thr[t].pc = "idle") =>
          /\ DOMAIN mem = {brk_pages[i] : i \in DOMAIN brk_pages}
          /\ Cardinality(DOMAIN mem) = Cardinality(DOMAIN brk_pages)

\* two writes to the same page have returned; one of them found the index
\* taken when it came to insert its own page
C3_Witness ==
    \E t, u \in Threads :
        /\ t # u
        /\ thr[t].pc = "idle" /\ thr[u].pc = "idle"
        /\ thr[t].op = WRITE /\ thr[u].op = WRITE
        /\ thr[t].err = 0 /\ thr[u].err = 0
        /\ thr[t].raced /\ ~thr[u].raced
        /\ PageIndex(thr[t].sector) = PageIndex(thr[u].sector)
        /\ thr[t].got[1] = thr[u].got[1]

\* the step is one of thread t
Acting(t) == thr'[t] # thr[t]

\* the step changes the tree, or the bytes or the life of a page in the tree
StoreChanges ==
    \/ brk_pages' # brk_pages
    \/ \E i \in DOMAIN brk_pages :
          \/ brk_pages[i] \notin DOMAIN mem'
          \/ /\ brk_pages[i] \in DOMAIN mem
             /\ mem'[brk_pages[i]].data # mem[brk_pages[i]].data

InEnsure(r) == r.pc \in {"ins_lookup", "ins_alloc", "ins_preload", "ins_lock",
                         "ins_tag", "ins_insert", "ins_relookup", "ins_unlock"}
InZero(r) == r.pc \in {"zero_lookup", "zero_clear"}
InFreeAll(r) == r.pc \in {"fl_gang", "fl_delete"}

\* C10 as stated: a step of ensure, zero or free_all that changes the
\* mapping or a page's contents is taken by the holder of brk_lock.
C10_UnderLockStep ==
    \A t \in Threads :
        (Acting(t) /\ StoreChanges
           /\ (InEnsure(thr[t]) \/ InZero(thr[t]) \/ InFreeAll(thr[t])))
        => brk_lock = t

C10_AllUnderLock == [][C10_UnderLockStep]_vars

\* C10 as amended: brk_insert_page changes the tree only while it holds
\* brk_lock; brk_zero_page and brk_free_pages never hold brk_lock;
\* brk_free_pages runs in at most one thread at a time, under brk_mutex.
C10_EnsureStep ==
    \A t \in Threads :
        (Acting(t) /\ InEnsure(thr[t]) /\ brk_pages' # brk_pages)
        => brk_lock = t

C10_LockHolders ==
    /\ \A t \in Threads :
          brk_lock = t => thr[t].pc \in {"ins_tag", "ins_insert",
                                         "ins_relookup", "ins_unlock", "oops"}
    /\ \A t \in Threads : InFreeAll(thr[t]) => brk_mutex = t

C10_EnsureUnderLock == [][C10_EnsureStep]_vars /\ []C10_LockHolders

\* a thread holds brk_lock with its page inserted while another is about to
\* clear or to free a page
C10_Witness ==
    \E t, u \in Threads :
        /\ brk_lock = t /\ thr[t].pc = "ins_unlock"
        /\ thr[u].pc \in {"zero_clear", "fl_delete"}

\* the number of pages the range of a thread touches
NPagesOf(r) == IF CopyOf(r) < r.n THEN 2 ELSE 1

InCopy(r) == r.pc \in {"cp_lookup", "cp_copy"}

\* C11: while a write is in copy_to_brk, after copy_to_brk_setup has returned
\* 0, every page its range touches is in the tree; the lookups of
\* copy_to_brk find their page, so that BUG_ON(!page) does not fire, and
\* no step of copy_to_brk adds or removes a page; in every interleaving of
\* reads, writes and discards.
C11_Present ==
    \A t \in Threads :
        InCopy(thr[t]) =>
            \A k \in 1..NPagesOf(thr[t]) :
                PageIndex(NthSector(thr[t], k)) \in DOMAIN brk_pages

C11_CopyStep ==
    \A t \in Threads :
        (Acting(t) /\ InCopy(thr[t])) =>
            /\ thr'[t].pc # "oops"
            /\ bug' = bug
            /\ brk_pages' = brk_pages
            /\ DOMAIN mem' = DOMAIN mem

C11_TwoPhase == []C11_Present /\ [][C11_CopyStep]_vars

\* a write is about to look up its second page while the other thread is
\* in the middle of a discard or a read of that page
C11_Witness ==
    \E t, u \in Threads :
        /\ thr[t].pc = "cp_lookup" /\ thr[t].which = 2
        /\ thr[u].pc \in {"zero_clear", "rd_copy"}
        /\ PageIndex(thr[u].cur) = PageIndex(thr[t].cur)

ReqInRange == bio_end_sector(req.bio) <= get_capacity

\* C12: a bio handed to brk_make_request has bio_endio called for it once
\* and only once, with one outcome, on each path: -EIO when it ends beyond
\* the capacity, 0 for a discard, the error of the segment that failed, 0
\* when all segments went through; and every bio handed in gets there.
C12_Once ==
    /\ req.pc \in {"entry", "segment", "out"} => req.endio = 0
    /\ req.pc = "done" =>
          /\ req.endio = 1
          /\ ~ReqInRange => req.err = -EIO
          /\ (ReqInRange /\ req.bio.rw = REQ_DISCARD) => req.err = 0
          /\ (ReqInRange /\ req.bio.rw # REQ_DISCARD) =>
                \/ req.err = 0 /\ req.k = Len(req.vecs) + 1
                \/ req.err = -ENOSPC /\ req.k <= Len(req.vecs)

C12_Completes == (req.pc = "entry") ~> (req.pc = "done" /\ req.endio = 1)

C12_EndioOnce == []C12_Once /\ C12_Completes

\* a write of two segments was completed with the error of its second
\* segment
C12_Witness ==
    /\ req.pc = "done" /\ req.endio = 1
    /\ req.bio.rw = WRITE /\ Len(req.vecs) = 2
    /\ req.err = -ENOSPC /\ req.k = 2

\* a range translated with 512 byte sectors and 4096 byte pages
GeoReal == geo.pc = "done" /\ geo.ss = 9 /\ geo.ps = 12

\* C13 as stated: with 4096 byte pages and 512 byte sectors sector 1000
\* lies 3584 bytes into its page, 512 bytes are left before the page
\* boundary, and a write of 100 bytes there has two pages ensured and its
\* data split over them.
C13_SectorSplit ==
    (GeoReal /\ geo.sector = 1000 /\ geo.n = 100) =>
        /\ geo.offset = 3584
        /\ 4096 - geo.offset = 512
        /\ Len(geo.ensured) = 2
        /\ Len(geo.lens) = 2

\* C13 as amended: with 4096 byte pages and 512 byte sectors sector 1000
\* is the first sector of page 125 (offset 0, 4096 bytes left), and a write
\* of 100 bytes there has the one page 125 ensured and is copied whole to
\* it; the sector 3584 bytes into that page is 1007, and at no sector does
\* a write of 100 bytes touch two pages.  Two pages are ensured, and the
\* data split at the boundary, exactly when offset + n exceeds the page.
C13_SectorOnePage ==
    GeoReal =>
        /\ geo.sector = 1000 =>
              (geo.offset = 0 /\ geo.ensured[1] = 125 /\ geo.copy = geo.n)
        /\ geo.sector = 1007 =>
              (geo.offset = 3584 /\ geo.copy = Min(geo.n, 512)
                 /\ geo.ensured[1] = 125)
        /\ geo.n = 100 => (geo.ensured = <<PageIndexAt(geo.sector, 9, 12)>>
                             /\ geo.lens = <<100>>)
        /\ Len(geo.ensured) = 2 <=> geo.offset + geo.n > 4096
        /\ Len(geo.ensured) = 2 =>
              /\ geo.ensured[2] = geo.ensured[1] + 1
              /\ geo.lens = <<4096 - geo.offset, geo.n - (4096 - geo.offset)>>

\* the write of 100 bytes at sector 1000 has been translated
C13_Witness == GeoReal /\ geo.sector = 1000 /\ geo.n = 100

\* the page a thread has looked up and is about to use
Holding(r) == r.pc \in {"cp_copy", "zero_clear", "rd_copy"} /\ r.page # NULL

\* C14: in every state, also while threads are in the middle of
\* brk_insert_page, each page in the tree is an allocated page whose index
\* field is the key it is under; a page a lookup has returned carries the
\* index looked up; and no BUG_ON has fired.
C14_IndexIsKey ==
    /\ \A i \in DOMAIN brk_pages :
          /\ brk_pages[i] \in DOMAIN mem
          /\ mem[brk_pages[i]].index = i
    /\ \A t \in Threads :
          /\ thr[t].pc # "oops"
          /\ Holding(thr[t]) =>
                /\ thr[t].page \in DOMAIN mem
                /\ mem[thr[t].page].index = PageIndex(thr[t].cur)
    /\ ~bug

\* a thread is about to insert its page under an index which the other
\* thread is about to look up, while the tree holds another page
C14_Witness ==
    \E t, u \in Threads :
        /\ thr[t].pc = "ins_insert"
        /\ thr[u].pc \in {"ins_lookup", "rd_lookup", "zero_lookup", "cp_lookup"}
        /\ PageIndex(thr[u].cur) = PageIndex(thr[t].cur)
        /\ brk_pages # <<>>

InLocked(r) == r.pc \in {"ins_tag", "ins_insert", "ins_relookup", "ins_unlock"}

\* C15: a thread holds brk_lock exactly while it is between spin_lock and
\* spin_unlock of brk_insert_page, that is at the index tagging, the insert,
\* the lookup after a lost insert and the unlock; so alloc_page and
\* radix_tree_preload run without the lock, and a thread that has left
\* brk_insert_page, with a page or with NULL, does not hold it.
C15_HeldState == \A t \in Threads : (brk_lock = t) <=> InLocked(thr[t])

C15_AllocStep ==
    \A t \in Threads :
        (Acting(t) /\ thr[t].pc \in {"ins_alloc", "ins_preload"}) =>
            /\ brk_lock # t
            /\ brk_lock' # t
            /\ thr'[t].pc = "idle" => thr'[t].err = -ENOSPC

C15_LockAroundInsert == []C15_HeldState /\ [][C15_AllocStep]_vars

\* the lock is free after one thread has come back from brk_insert_page
\* with the other's page, having lost the insert, and the other thread has
\* been refused memory
C15_Witness ==
    \E t, u \in Threads :
        /\ t # u
        /\ brk_lock = NoThread
        /\ thr[t].raced /\ thr[t].pc \in {"cp_lookup", "cp_copy", "idle"}
        /\ thr[u].pc = "idle" /\ thr[u].err = -ENOSPC

\* thread t has come back from BLKFLSBUF with brk_free_pages run
Flushed(r) == r.pc = "idle" /\ r.op = BLKFLSBUF /\ r.err = 0

\* C16: brk_free_pages, with nothing else using the device, ends and
\* leaves the store empty whatever pages it held: fewer than FREE_BATCH,
\* FREE_BATCH, a multiple of it or more, at indices next to each other or
\* apart.  Each round of its for loop takes one page out of the tree and
\* frees that page, no BUG_ON fires, and a run on the empty store changes
\* nothing.
C16_State ==
    /\ ~bug
    /\ \A t \in Threads :
          /\ thr[t].pc # "oops"
          /\ Flushed(thr[t]) => (brk_pages = <<>> /\ mem = <<>>)
    /\ DOMAIN mem = {brk_pages[i] : i \in DOMAIN brk_pages}

C16_Step ==
    \A t \in Threads :
        /\ (Acting(t) /\ thr[t].pc = "fl_delete") =>
              /\ Cardinality(DOMAIN brk_pages') = Cardinality(DOMAIN brk_pages) - 1
              /\ Cardinality(DOMAIN mem') = Cardinality(DOMAIN mem) - 1
              /\ DOMAIN mem \ DOMAIN mem' = {thr[t].batch[thr[t].i]}
        /\ (Acting(t) /\ InFreeAll(thr[t]) /\ brk_pages = <<>>) =>
              (StoreUnchanged /\ thr'[t].pc = "fl_unlock")

C16_Ends ==
    \A t \in Threads :
        (thr[t].pc = "fl_gang") ~> (Flushed(thr[t]) /\ brk_pages = <<>>)

C16_FreeAll == []C16_State /\ [][C16_Step]_vars /\ C16_Ends

\* brk_free_pages has ended on a store whose last batch was a full one
\* with the highest index in it: it looked once more and found nothing
C16_Witness ==
    \E t \in Threads :
        /\ Flushed(thr[t])
        /\ brk_pages = <<>>
        /\ thr[t].batch = <<>> /\ thr[t].pos = MaxFreeIdx + 2

----------------------------------------------------------------------------
(* C17 *)

\* the segments of the last call that were copied to the store
DoneSegs(c) == 1..c.done

\* the pages that hold a byte of some segment of a bio
SegPages(bio) ==
    {a \div PAGE_SIZE : a \in UNION {SegBytes(bio, k) :
                                        k \in DOMAIN bio.bi_io_vec}}

\* C17: a write changes only the bytes of the ranges it copied: every other
\* byte of the pages it touched reads as before (zero where the page has
\* just been allocated), and every page that holds no byte of the write is
\* present or absent as before, with the same contents.
C17_WriteFrameStep ==
    (IsWrite(last') /\ InRange(last')) =>
        LET bio == last'.bio
        IN  /\ \A a \in AllBytes :
                  (\A k \in DoneSegs(last') : a \notin SegBytes(bio, k))
                     => ByteAt(After, a) = ByteAt(Now, a)
            /\ \A idx \in AllIdx \ SegPages(bio) : SamePage(Now, After, idx)
            /\ \A idx \in DOMAIN brk_pages :
                  /\ idx \in DOMAIN brk_pages'
                  /\ brk_pages'[idx] = brk_pages[idx]

C17_WriteFrame == [][C17_WriteFrameStep]_vars

\* a write of less than a page went through, into a page that held other
\* bytes than zero outside the range written, while a page the write has
\* no byte in was in the store too
C17_Witness ==
    /\ IsWrite(last) /\ InRange(last) /\ last.err = 0
    /\ last.bio.bi_size < PAGE_SIZE
    /\ \E a \in AllBytes :
          /\ a \div PAGE_SIZE \in SegPages(last.bio)
          /\ \A k \in DoneSegs(last) : a \notin SegBytes(last.bio, k)
          /\ ByteAt(Now, a) # 0
    /\ \E idx \in last.had : idx \notin SegPages(last.bio)

----------------------------------------------------------------------------
(* C18 *)

\* C18: in every interleaving of writes and discards with BLKFLSBUF, the
\* page a write has prepared with copy_to_brk_setup is in the tree when
\* copy_to_brk looks it up, and a page that brk_lookup_page has returned
\* stays allocated until the copy or the clearing that uses it has ended.
C18_NoRemovalUnderIO ==
    \A t \in Threads :
        /\ thr[t].pc = "cp_lookup" =>
               PageIndex(thr[t].cur) \in DOMAIN brk_pages
        /\ Holding(thr[t]) => thr[t].page \in DOMAIN mem

----------------------------------------------------------------------------
(* C19 *)

\* the call was an access through brk_make_request or brk_rw_page
IsAccess(c) == c.op \in {"make_request", "rw_page"}

\* C19: an access whose sector range ends beyond the capacity of the device
\* fails with an error and puts no page in the store, whether it comes
\* through brk_make_request or through brk_rw_page; so no page at or above
\* the last page of the capacity gets into the store.
C19_BeyondCapacityStep ==
    (IsAccess(last') /\ bio_end_sector(last'.bio) > get_capacity) =>
        /\ last'.err # 0
        /\ DOMAIN brk_pages' = DOMAIN brk_pages
        /\ DOMAIN mem' = DOMAIN mem

C19_BeyondCapacity == [][C19_BeyondCapacityStep]_vars

----------------------------------------------------------------------------
(* C20 *)

\* the sector that holds device byte a
SectorOf(a) == Shr(a, SECTOR_SHIFT)

\* C20: a discard changes no byte of a sector outside its range
\* [bi_sector, bi_sector + bi_size / sector size): every such sector reads
\* the same before and after, wherever in a page the range starts and
\* whatever its length.
C20_DiscardFrameStep ==
    (IsDiscard(last') /\ InRange(last')) =>
        \A a \in AllBytes :
            SectorOf(a) \notin DiscardRange(last'.bio)
               => ByteAt(After, a) = ByteAt(Now, a)

C20_DiscardFrame == [][C20_DiscardFrameStep]_vars

====
